---- MODULE Spec2Model ----
(***************************************************************************)
(* PandaOps: the review pipeline (heuristic scanner, AI reviewer, comment  *)
(* merger), the outcome classifier and summary renderers, the comment      *)
(* poster and the CLI entry point, as state machines.                      *)
(*                                                                         *)
(* Text is a string of ASCII characters; the string operations and the     *)
(* regular expressions of the source are computed character by character. *)
(* The dashes and pictographs of the source's message texts, which are not *)
(* ASCII, are written "-" or left out.  A diff is kept line by line.       *)
(*                                                                         *)
(* Every await on a remote call is two steps: the call is made, then its   *)
(* outcome is delivered.                                                   *)
(*                                                                         *)
(* Three specifications share the definitions:                             *)
(*   Spec        main(argv): loadConfig, execute (src/src/main.ts)         *)
(*   SpecReview  runReview(diff, cfg) called as exported                   *)
(*   SpecPost    postReview / formatSummaryCLI called as exported          *)
(***************************************************************************)
EXTENDS Integers, Sequences, FiniteSets, TLC

(* ------------------------------ bounds --------------------------------- *)

\* longest diff (in lines) given to runReview in SpecReview
MaxDiffLines == 2
\* longest comments array of a completion-service response
MaxAI == 2
\* largest maxComments value (the smallest is -1)
MaxCap == 3
\* longest comment list of a ReviewResult handed to the poster in SpecPost
MaxResult == 2

(* --------------------------- JavaScript values ------------------------- *)

Undef == [k |-> "undefined", s |-> "", n |-> 0]
Null == [k |-> "null", s |-> "", n |-> 0]
Str(s) == [k |-> "string", s |-> s, n |-> 0]
Num(n) == [k |-> "number", s |-> "", n |-> n]

\* Number('abc'): a value of type number that is not a number
NaN == [k |-> "number", s |-> "NaN", n |-> 0]

\* Number.isNaN(v)
IsNaN(v) == v.k = "number" /\ v.s = "NaN"

\* JavaScript truthiness of a value
Truthy(v) ==
  \/ v.k = "string" /\ v.s # ""
  \/ v.k = "number" /\ v.n # 0 /\ ~IsNaN(v)

\* typeof v === 'number' (true of NaN as well)
IsNumber(v) == v.k = "number"

\* `${v}` of a number
numberText(v) == IF IsNaN(v) THEN "NaN" ELSE ToString(v.n)

SeqsUpTo(S, n) == UNION {[1..k -> S] : k \in 0..n}

(* --------------------------------- text -------------------------------- *)

\* the upper-case letter of each lower-case letter
LowerToUpper ==
  [a |-> "A", b |-> "B", c |-> "C", d |-> "D", e |-> "E", f |-> "F",
   g |-> "G", h |-> "H", i |-> "I", j |-> "J", k |-> "K", l |-> "L",
   m |-> "M", n |-> "N", o |-> "O", p |-> "P", q |-> "Q", r |-> "R",
   s |-> "S", t |-> "T", u |-> "U", v |-> "V", w |-> "W", x |-> "X",
   y |-> "Y", z |-> "Z"]

UpperCaseLetters == {LowerToUpper[c] : c \in DOMAIN LowerToUpper}

Digits == {"0", "1", "2", "3", "4", "5", "6", "7", "8", "9"}

\* the white space String.prototype.trim removes in ASCII text: space, tab,
\* line feed, carriage return, form feed and vertical tab (U+000B, written
\* as the character itself in the last string)
WhiteSpace == {" ", "\t", "\n", "\r", "\f", ""}

\* s[i - 1] of JavaScript: the i-th character
charAt(s, i) == SubSeq(s, i, i)

\* String.prototype.slice(start), start >= 0
slice(s, start) == SubSeq(s, start + 1, Len(s))

toUpperChar(c) == IF c \in DOMAIN LowerToUpper THEN LowerToUpper[c] ELSE c

\* String.prototype.toUpperCase (the case folding of the /i flag)
RECURSIVE toUpper(_)
toUpper(s) ==
  IF s = "" THEN "" ELSE toUpperChar(charAt(s, 1)) \o toUpper(slice(s, 1))

\* \w of a regular expression
isWordChar(c) ==
  \/ c \in DOMAIN LowerToUpper
  \/ c \in UpperCaseLetters
  \/ c \in Digits
  \/ c = "_"

RECURSIVE trimStart(_)
trimStart(s) ==
  IF s # "" /\ charAt(s, 1) \in WhiteSpace THEN trimStart(slice(s, 1)) ELSE s

RECURSIVE trimEnd(_)
trimEnd(s) ==
  IF s # "" /\ charAt(s, Len(s)) \in WhiteSpace
    THEN trimEnd(SubSeq(s, 1, Len(s) - 1)) ELSE s

\* String.prototype.trim
trim(s) == trimEnd(trimStart(s))

\* String.prototype.startsWith
startsWith(s, prefix) ==
  Len(s) >= Len(prefix) /\ SubSeq(s, 1, Len(prefix)) = prefix

\* pat occurs in s at position i
occursAt(s, pat, i) == SubSeq(s, i, i + Len(pat) - 1) = pat

\* the positions of s where pat occurs
occurrences(s, pat) == {i \in 1..(Len(s) - Len(pat) + 1) : occursAt(s, pat, i)}

\* /pat/.test(s), pat a literal: pat occurs somewhere in s
test(pat, s) == \E i \in 1..(Len(s) - Len(pat) + 1) : occursAt(s, pat, i)

\* /pat/i.test(s), pat a non-empty literal in upper case: pat occurs
\* somewhere in s when the case of the letters is ignored
testI(pat, s) ==
  \E i \in 1..(Len(s) - Len(pat) + 1) :
    /\ toUpperChar(charAt(s, i)) = charAt(pat, 1)
    /\ toUpper(SubSeq(s, i, i + Len(pat) - 1)) = pat

\* /\bpat\b/.test(s), pat a literal that begins and ends with a word
\* character: an occurrence with no word character before it or after it
testWord(pat, s) ==
  \E i \in occurrences(s, pat) :
    /\ (i = 1 \/ ~isWordChar(charAt(s, i - 1)))
    /\ (i + Len(pat) > Len(s) \/ ~isWordChar(charAt(s, i + Len(pat))))

\* s.replace(/^tag/i, marker), tag a literal in upper case
replacePrefixI(s, tag, marker) ==
  IF Len(s) >= Len(tag) /\ toUpper(SubSeq(s, 1, Len(tag))) = tag
    THEN marker \o slice(s, Len(tag))
    ELSE s

\* Array.prototype.slice(0, end)
slice0(s, end) ==
  LET e == IF end < 0 THEN (IF Len(s) + end < 0 THEN 0 ELSE Len(s) + end)
           ELSE (IF end > Len(s) THEN Len(s) ELSE end)
  IN SubSeq(s, 1, e)

RECURSIVE Repeat(_, _)
Repeat(s, n) == IF n <= 0 \/ s = <<>> THEN <<>> ELSE s \o Repeat(s, n - 1)

(* ------------------------------ data model ----------------------------- *)

\* ReviewComment: {file?, line?, message, source}
Comment(file, line, message, source) ==
  [file |-> file, line |-> line, message |-> message, source |-> source]

HeuristicComment(message) == Comment(Undef, Undef, message, "heuristic")

\* the two reviewEngine variants of the repository
Engines == {"degrade", "failhard"}

(* --------------------------- heuristic scanner ------------------------- *)

\* A diff is a non-empty sequence of blocks [line, n, cr]: n consecutive copies
\* of one line, each ended by CRLF (cr) or LF (the text "" is one empty line).
\* A line holds no line terminator.
Block(line, n, cr) == [line |-> line, n |-> n, cr |-> cr]

TodoMsg(content) == "Avoid TODOs in production code: " \o trim(content)
ConsoleMsg(content) ==
  "console.log found - remove or replace with a proper logger: " \o trim(content)
DebuggerMsg == "debugger statement found - remove before merge."
AnyMsg == "TypeScript 'any' used - prefer explicit types."
LargeDiffMsg(n) ==
  "Large diff with " \o ToString(n)
    \o " added lines - consider splitting into smaller PRs."

\* a variant of LineComments whose debugger rule fires on every line
LineCommentsAlways(content, engine) ==
  (IF testI("TODO", content)
     THEN <<HeuristicComment(TodoMsg(content))>> ELSE <<>>)
  \o (IF test("console.log", content)
        THEN <<HeuristicComment(ConsoleMsg(content))>> ELSE <<>>)
  \o <<HeuristicComment(DebuggerMsg)>>

\* the comments one added line yields, rule by rule: /TODO/i, /console\.log/,
\* /debugger;?/ (which matches wherever "debugger" occurs) and, in the
\* fail-hard variant, /\bany\b/
LineComments(content, engine) ==
  (IF testI("TODO", content)
     THEN <<HeuristicComment(TodoMsg(content))>> ELSE <<>>)
  \o (IF test("console.log", content)
        THEN <<HeuristicComment(ConsoleMsg(content))>> ELSE <<>>)
  \o (IF test("debugger", content)
        THEN <<HeuristicComment(DebuggerMsg)>> ELSE <<>>)
  \o (IF engine = "failhard" /\ testWord("any", content)
        THEN <<HeuristicComment(AnyMsg)>> ELSE <<>>)

IsMetaLine(line) ==
  \/ startsWith(line, "+++")
  \/ startsWith(line, "---")
  \/ startsWith(line, "diff ")

\* a variant of IsAddedLine that does not skip the header lines
IsAddedLineAnyPlus(line) == startsWith(line, "+")

IsAddedLine(line) == ~IsMetaLine(line) /\ startsWith(line, "+")

LargeDiffLimit == 500

RECURSIVE ScanLines(_, _, _)
ScanLines(diff, engine, acc) ==
  IF diff = <<>> THEN acc
  ELSE LET b == Head(diff)
           next == IF IsAddedLine(b.line)
                     THEN [comments |-> acc.comments
                              \o Repeat(LineComments(slice(b.line, 1), engine), b.n),
                           addedLines |-> acc.addedLines + b.n]
                     ELSE acc
       IN ScanLines(Tail(diff), engine, next)

\* a variant of runHeuristic that warns from LargeDiffLimit added lines on
runHeuristicAtLimit(diff, engine) ==
  LET scanned == ScanLines(diff, engine, [comments |-> <<>>, addedLines |-> 0])
  IN IF scanned.addedLines >= LargeDiffLimit
       THEN [comments |-> Append(scanned.comments,
                                 HeuristicComment(LargeDiffMsg(scanned.addedLines))),
             addedLines |-> scanned.addedLines]
       ELSE scanned

runHeuristic(diff, engine) ==
  LET scanned == ScanLines(diff, engine, [comments |-> <<>>, addedLines |-> 0])
  IN IF scanned.addedLines > LargeDiffLimit
       THEN [comments |-> Append(scanned.comments,
                                 HeuristicComment(LargeDiffMsg(scanned.addedLines))),
             addedLines |-> scanned.addedLines]
       ELSE scanned

RECURSIVE totalLines(_)
totalLines(diff) == IF diff = <<>> THEN 0 ELSE Head(diff).n + totalLines(Tail(diff))

\* the number of characters of one line
lineLength(line) == Len(line)

\* the characters of a block's lines, each with its line terminator
terminated(b) == b.n * (lineLength(b.line) + (IF b.cr THEN 2 ELSE 1))

RECURSIVE blocksLength(_)
blocksLength(diff) ==
  IF diff = <<>> THEN 0 ELSE terminated(Head(diff)) + blocksLength(Tail(diff))

\* diff.length: the last line of the text has no terminator
length(diff) ==
  blocksLength(diff) - (IF diff[Len(diff)].cr THEN 2 ELSE 1)

(* ------------------------------ AI reviewer ---------------------------- *)

MAX_DIFF_CHARS == 60000

\* the length of "\n... [Diff truncated]"
markerLength == Len("\n... [Diff truncated]")

\* trimmedDiff, the diff text put into the user prompt: the number of
\* characters kept from the diff, whether the marker follows, and the
\* length of the whole
trimmedDiff(diff) ==
  IF length(diff) > MAX_DIFF_CHARS
    THEN [kept |-> MAX_DIFF_CHARS, marker |-> TRUE,
          chars |-> MAX_DIFF_CHARS + markerLength]
    ELSE [kept |-> length(diff), marker |-> FALSE, chars |-> length(diff)]

\* what openai.chat.completions.parse does: it resolves with a parsed object
\* holding a comments array ("ok"), resolves with no usable array ("invalid"),
\* or rejects with an error whose message is err ("error")
Completion(kind, comments, err) == [kind |-> kind, comments |-> comments, err |-> err]

\* one element of the parsed comments array (ReviewResponseSchema)
RawComment(file, line, type, message) ==
  [file |-> file, line |-> line, type |-> type, message |-> message]

MissingArrayMsg == "AI response missing valid 'comments' array."
AIErrorMsg(err) == "AI error: " \o err
AIFailedMsg(err) == "AI review failed: " \o err

\* parsed.comments.map(c => ({file, line, message: c.message.trim(), source: 'ai'}))
MapComments(raw) ==
  [i \in DOMAIN raw |->
     Comment(raw[i].file, raw[i].line, trim(raw[i].message), "ai")]

\* a variant of runAIThrows whose catch block never rethrows
runAINeverThrows(completion, engine) == FALSE

\* the catch block of runAI: TRUE when it rethrows (the fail-hard variant)
runAIThrows(completion, engine) ==
  completion.kind = "error" /\ engine = "failhard"

\* a variant of runAI whose catch block returns no comment
runAISwallows(completion, engine) ==
  IF completion.kind = "ok" THEN MapComments(completion.comments)
  ELSE IF completion.kind = "invalid"
    THEN <<Comment(Undef, Undef, MissingArrayMsg, "ai")>>
  ELSE <<>>

\* the comments runAI returns when it returns
runAI(completion, engine) ==
  CASE completion.kind = "ok" -> MapComments(completion.comments)
    [] completion.kind = "invalid" -> <<Comment(Undef, Undef, MissingArrayMsg, "ai")>>
    [] OTHER -> <<Comment(Undef, Undef, AIErrorMsg(completion.err), "ai")>>

(* ------------------------------ comment merger ------------------------- *)

\* merged.some(m => m.message === c.message)
someMessage(merged, message) == \E i \in DOMAIN merged : merged[i].message = message

\* a variant of mergeComments that appends every AI comment
mergeNoDedup(merged, aiComments) == merged \o aiComments

RECURSIVE mergeComments(_, _)
mergeComments(merged, aiComments) ==
  IF aiComments = <<>> THEN merged
  ELSE LET c == Head(aiComments)
       IN mergeComments(IF someMessage(merged, c.message) THEN merged
                          ELSE Append(merged, c),
                        Tail(aiComments))

\* merged.slice(0, cfg.maxComments)
limitComments(merged, maxComments) == slice0(merged, maxComments)

summaryLine(limited, heuristicComments, aiComments, aiUsed) ==
  "Comments: " \o ToString(Len(limited)) \o " (Heuristic "
    \o ToString(Len(heuristicComments))
    \o (IF aiUsed THEN " + AI " \o ToString(Len(aiComments)) ELSE "")
    \o ")"

\* a variant of ReviewResult that reports aiUsed only when the AI reviewer
\* returned a comment
ReviewResultUsedIfAny(diff, heuristic, aiComments, aiUsed, maxComments) ==
  LET limited == limitComments(mergeComments(heuristic.comments, aiComments),
                               maxComments)
  IN [comments |-> limited,
      summary |-> summaryLine(limited, heuristic.comments, aiComments, aiUsed),
      rawDiffStats |-> [addedLines |-> heuristic.addedLines,
                        totalLines |-> totalLines(diff)],
      aiUsed |-> (aiUsed /\ aiComments # <<>>)]

\* the ReviewResult runReview returns
ReviewResult(diff, heuristic, aiComments, aiUsed, maxComments) ==
  LET limited == limitComments(mergeComments(heuristic.comments, aiComments),
                               maxComments)
  IN [comments |-> limited,
      summary |-> summaryLine(limited, heuristic.comments, aiComments, aiUsed),
      rawDiffStats |-> [addedLines |-> heuristic.addedLines,
                        totalLines |-> totalLines(diff)],
      aiUsed |-> aiUsed]

(* ---------------------------- outcome classifier ----------------------- *)

\* comments.filter(c => /\[TAG\]/i.test(c.message)).length
countTag(comments, tag) ==
  Cardinality({i \in DOMAIN comments : testI(tag, comments[i].message)})

\* a variant of statusOf that requests changes on any warning, whatever the flag
statusOfAnyWarning(failOnWarnings, hasErrors, hasWarns) ==
  IF hasErrors \/ hasWarns THEN "CHANGES_REQUESTED" ELSE "APPROVED"

statusOf(failOnWarnings, hasErrors, hasWarns) ==
  IF failOnWarnings /\ (hasErrors \/ hasWarns) THEN "CHANGES_REQUESTED"
  ELSE IF hasErrors THEN "CHANGES_REQUESTED"
  ELSE "APPROVED"

summarizeResult(result, cfg) ==
  LET errors == countTag(result.comments, "[ERROR]")
      warns == countTag(result.comments, "[WARN]")
      status == statusOf(cfg.failOnWarnings, errors > 0, warns > 0)
  IN [total |-> Len(result.comments),
      errors |-> errors,
      warns |-> warns,
      tips |-> countTag(result.comments, "[TIP]"),
      notes |-> countTag(result.comments, "[NOTE]"),
      grammar |-> countTag(result.comments, "[GRAMMAR]"),
      addedLines |-> result.rawDiffStats.addedLines,
      aiUsed |-> result.aiUsed,
      status |-> status,
      hasIssues |-> (status = "CHANGES_REQUESTED")]

(* ----------------------------- summary renderer ------------------------ *)

\* A cfg argument is <<cfg>>, or <<>> when the caller passes none (undefined).
\* summarizeResult reads cfg.failOnWarnings whatever the comments are, which
\* throws a TypeError on undefined.
NoCfg == <<>>
readsUndefined(cfgArg) == cfgArg = NoCfg

\* focus switches are "true", "false" or "undefined" (an unset optional field)
orTrue(v) == v # "false"
isTrue(v) == v = "true"

\* formatSummary: the lines of the markdown summary
formatSummary(result, cfg) ==
  LET stats == summarizeResult(result, cfg)
  IN IF stats.total = 0
       THEN << "### PandaOps Automated Review Summary", "",
               "**No issues found - looks great!**" >>
       ELSE << "### PandaOps Summary", "",
               "**Comments:** " \o ToString(stats.total) >>
            \o (IF orTrue(cfg.focusErrors)
                  THEN << "- Errors: " \o ToString(stats.errors) >> ELSE <<>>)
            \o (IF orTrue(cfg.focusWarn)
                  THEN << "- Warnings: " \o ToString(stats.warns) >> ELSE <<>>)
            \o (IF orTrue(cfg.focusTips)
                  THEN << "- Tips: " \o ToString(stats.tips) >> ELSE <<>>)
            \o (IF isTrue(cfg.focusNotes)
                  THEN << "- Notes: " \o ToString(stats.notes) >> ELSE <<>>)
            \o (IF isTrue(cfg.focusGrammar)
                  THEN << "- Grammar: " \o ToString(stats.grammar) >> ELSE <<>>)
            \o << "",
                  IF stats.hasIssues
                    THEN "**Review Result:** Changes Requested"
                    ELSE "**Review Result:** Approved" >>

yesNo(b) == IF b THEN "Yes" ELSE "No"

\* formatSummaryCLI: the lines of the plain summary, without their indentation
formatSummaryCLI(result, cfg) ==
  LET stats == summarizeResult(result, cfg)
  IN IF stats.total = 0
       THEN << "PandaOps Review Summary",
               "----------------------------------------",
               "No issues found - looks great!",
               "Lines added: " \o ToString(stats.addedLines),
               "AI Used: " \o yesNo(stats.aiUsed),
               "Status: APPROVED" >>
       ELSE << "PandaOps Review Summary",
               "----------------------------------------",
               "Comments: " \o ToString(stats.total),
               "Errors: " \o ToString(stats.errors),
               "Warnings: " \o ToString(stats.warns),
               "Tips: " \o ToString(stats.tips),
               "Notes: " \o ToString(stats.notes),
               "Grammar: " \o ToString(stats.grammar),
               "Lines added: " \o ToString(stats.addedLines),
               "AI Used: " \o yesNo(stats.aiUsed),
               "Status: " \o stats.status >>

\* message.replace(/^\[TAG\]/i, marker), for the five tags in turn
beautifyTagPrefix(message) ==
  LET r1 == replacePrefixI(message, "[ERROR]", "**[error-mark]**")
      r2 == replacePrefixI(r1, "[WARN]", "**[warn-mark]**")
      r3 == replacePrefixI(r2, "[TIP]", "**[tip-mark]**")
      r4 == replacePrefixI(r3, "[NOTE]", "**[note-mark]**")
  IN replacePrefixI(r4, "[GRAMMAR]", "**[grammar-mark]**")

\* c.file && typeof c.line === 'number'
hasLocation(c) == Truthy(c.file) /\ IsNumber(c.line)

(* ------------------------------ configuration -------------------------- *)

Providers == {"github", "bitbucket", "azure"}

Config(provider, outputJson, dryRun, failOnComments, failOnWarnings, aiEnabled, maxComments, focus) ==
  [provider |-> provider, outputJson |-> outputJson, dryRun |-> dryRun,
   failOnComments |-> failOnComments, failOnWarnings |-> failOnWarnings,
   aiEnabled |-> aiEnabled, maxComments |-> maxComments,
   focusErrors |-> focus[1], focusWarn |-> focus[2], focusTips |-> focus[3],
   focusNotes |-> focus[4], focusGrammar |-> focus[5]]

\* the schema's defaults for the five focus switches
DefaultFocus == <<"true", "true", "true", "false", "false">>

\* ConfigSchema.parse(merged): enum provider, min(1) strings, and z.number()
\* for maxComments, which rejects NaN (any integer, negative ones included,
\* is accepted)
schemaOk(raw) ==
  /\ raw.provider \in Providers
  /\ raw.repository # ""
  /\ raw.pullRequestId # ""
  /\ raw.token # ""
  /\ raw.openaiApiKey # ""
  /\ IsNumber(raw.maxComments)
  /\ ~IsNaN(raw.maxComments)

\* loadConfig as main calls it: aiEnabled is !opts.noAi, and commander stores
\* --no-ai under opts.ai, so opts.noAi is undefined and aiEnabled is true
loadConfig(raw) ==
  Config(raw.provider, raw.outputJson, raw.dryRun, raw.failOnComments,
         raw.failOnWarnings, TRUE, raw.maxComments.n, DefaultFocus)

\* createAdapter: the capabilities of the adapter of each provider
createAdapter(provider) ==
  IF provider = "github" THEN [inline |-> TRUE, status |-> TRUE]
  ELSE [inline |-> FALSE, status |-> FALSE]

(* -------------------------------- inputs ------------------------------- *)

\* the values maxComments takes
Caps == (0 - 1)..MaxCap

\* the lines diffs are made of
DiffLines ==
  { "+debugger;",
    "+ Todo",
    "+console.log [ERROR]",
    "+x any",
    "+x",
    "+++ b/f",
    "diff x" }

OneLine(line) == <<Block(line, 1, FALSE)>>

\* a diff with its headers, a removed line and CRLF line ends
HeaderDiff ==
  << Block("diff --git a/f b/f", 1, TRUE),
     Block("--- a/f", 1, TRUE),
     Block("+++ b/f", 1, TRUE),
     Block("-x", 1, FALSE),
     Block("+x", 2, TRUE),
     Block("+debugger;", 1, FALSE) >>

\* diffs around the large-diff limit of the scanner
LargeDiffs ==
  { <<Block("+x", LargeDiffLimit, FALSE)>>,
    <<Block("+x", LargeDiffLimit + 1, FALSE)>>,
    <<Block("+debugger;", 1, FALSE), Block("+x", LargeDiffLimit, FALSE)>> }

\* diffs around the size limit of the AI reviewer: MAX_DIFF_CHARS characters
\* (that many line feeds), one more, and about three times as many
LongDiffs ==
  { <<Block("", MAX_DIFF_CHARS + 1, FALSE)>>,
    <<Block("", MAX_DIFF_CHARS + 2, FALSE)>>,
    <<Block("+x", MAX_DIFF_CHARS, FALSE)>> }

\* the diffs runReview is called with in SpecReview
ReviewDiffs ==
  {[i \in DOMAIN ls |-> Block(ls[i], 1, FALSE)] :
     ls \in SeqsUpTo(DiffLines \ {"diff x"}, MaxDiffLines) \ {<<>>}}
    \cup {HeaderDiff} \cup LargeDiffs \cup LongDiffs

\* the stub adapters' diffs (unnamed/part_001:7, azure.ts:7) and the empty
\* diff of their not-implemented versions (azure.ts:23, azure.ts:38)
BitbucketDiff ==
  << Block("diff --git a/app.js b/app.js", 1, FALSE),
     Block("- console.log('debug')", 1, FALSE),
     Block("+ console.log('info')", 1, FALSE) >>
AzureDiff ==
  << Block("diff --git a/service.ts b/service.ts", 1, FALSE),
     Block("+ // New service logic", 1, FALSE) >>
EmptyDiff == OneLine("")

\* what the GitHub API answers: a few diffs, one of them with CRLF line ends
GithubDiffs ==
  { EmptyDiff,
    OneLine("+x"),
    OneLine("+debugger;"),
    << Block("+++ b/f", 1, TRUE), Block("+debugger;", 2, TRUE) >> }

\* adapter.getDiff() of each provider: the texts it may resolve with
getDiffResults(provider) ==
  CASE provider = "github" -> GithubDiffs
    [] provider = "bitbucket" -> {BitbucketDiff, EmptyDiff}
    [] OTHER -> {AzureDiff, EmptyDiff}

\* only the GitHub adapter does I/O that can fail
getDiffErrors(provider) ==
  IF provider = "github" THEN {"Request failed with status code 404"} ELSE {}

\* diff.replace(/\r\n/g, '\n')
normalize(d) == [i \in DOMAIN d |-> [d[i] EXCEPT !.cr = FALSE]]

\* elements of the completion service's comments array
RawComments ==
  { RawComment(Str("a.ts"), Num(3), "ERROR", "[ERROR] x"),
    RawComment(Undef, Num(7), "WARN", " [warn] x "),
    RawComment(Null, Null, "TIP", DebuggerMsg),
    RawComment(Str("b.ts"), Null, "TIP", "[TIP] x") }

ServiceErrors == { "timeout", "[ERROR] quota" }

CompletionsUpTo(raw, n) ==
  {Completion("ok", cs, "") : cs \in SeqsUpTo(raw, n)}
    \cup {Completion("invalid", <<>>, "")}
    \cup {Completion("error", <<>>, e) : e \in ServiceErrors}

\* what the completion service may answer, by entry point: one comment at
\* most under main, up to MaxAI comments when runReview is called directly
Completions(e) ==
  IF e = "main" THEN CompletionsUpTo(RawComments, 1)
  ELSE CompletionsUpTo({c \in RawComments : c.type # "TIP" \/ c.file = Null}, MaxAI)

\* the merged configuration main hands to ConfigSchema.parse
RawConfig(provider, token, maxComments, outputJson, dryRun, failOnComments, failOnWarnings) ==
  [provider |-> provider, repository |-> "o/r", pullRequestId |-> "1",
   token |-> token, openaiApiKey |-> "k", maxComments |-> maxComments,
   outputJson |-> outputJson, dryRun |-> dryRun,
   failOnComments |-> failOnComments, failOnWarnings |-> failOnWarnings]

RawConfigs ==
  {RawConfig(p, "t", Num(m), j, d, fc, fw) :
     p \in Providers, m \in Caps, j \in BOOLEAN, d \in BOOLEAN,
     fc \in BOOLEAN, fw \in BOOLEAN}
  \cup { RawConfig("gitlab", "t", Num(1), FALSE, FALSE, FALSE, FALSE),
         RawConfig("github", "", Num(1), FALSE, FALSE, TRUE, FALSE),
         RawConfig("github", "t", NaN, FALSE, TRUE, FALSE, FALSE) }

\* the configurations runReview is called with in SpecReview
ReviewConfigs ==
  {Config("github", FALSE, FALSE, FALSE, FALSE, ai, m, DefaultFocus) :
     ai \in BOOLEAN, m \in Caps}

\* the comments of the results handed to the poster
PostComments ==
  { HeuristicComment(DebuggerMsg),
    HeuristicComment(ConsoleMsg("console.log [ERROR]")),
    Comment(Str("a.ts"), Num(3), "[ERROR] x", "ai"),
    Comment(Undef, Num(7), "[warn] x", "ai"),
    Comment(Str("b.ts"), Num(5), "[WARN] x", "ai"),
    Comment(Str(""), Num(2), "[TIP] x", "ai"),
    Comment(Str("b.ts"), Null, "[Note] x", "ai") }

PostResults ==
  {[comments |-> cs, summary |-> "Comments: " \o ToString(Len(cs)),
    rawDiffStats |-> [addedLines |-> Len(cs), totalLines |-> Len(cs) + 1],
    aiUsed |-> ai] :
     cs \in SeqsUpTo(PostComments, MaxResult), ai \in BOOLEAN}

FocusChoices ==
  { DefaultFocus,
    <<"true", "true", "true", "true", "true">>,
    <<"false", "false", "false", "false", "false">>,
    <<"undefined", "undefined", "undefined", "undefined", "undefined">>,
    <<"false", "true", "false", "true", "false">> }

PostConfigs ==
  {Config("github", FALSE, FALSE, FALSE, fw, TRUE, MaxCap, f) :
     fw \in BOOLEAN, f \in FocusChoices}

(* ------------------------------ state ---------------------------------- *)

VARIABLES
  entry,       \* "main", "review" or "post": the entry point
  engine,      \* the reviewEngine variant linked
  pc,          \* control location
  cfg,         \* the configuration
  adapter,     \* the adapter's optional capabilities
  diff,        \* the diff under review
  heuristic,   \* runReview's local: runHeuristic's result
  aiComments,  \* runReview's local: runAI's result
  aiUsed,      \* runReview's local
  aiCalls,     \* requests made to the completion service
  completion,  \* <<>> or <<what the completion service answered>>
  request,     \* <<>> or <<the diff text sent to the completion service>>
  review,      \* <<>> or <<ReviewResult>>
  stats,       \* <<>> or <<the last record summarizeResult returned>>
  calls,       \* the comment-sink calls made, in order, each with its outcome
  out,         \* what was printed, in order
  cursor,      \* postReview's loop: index of the comment being posted inline
  exitCode,    \* process.exitCode (0 when unset)
  error        \* <<>> or <<the message of the error thrown>>

\* fixed once the entry point is chosen
setupVars == <<entry, engine>>
\* runReview's locals and the completion service
reviewVars == <<heuristic, aiComments, aiUsed, aiCalls, completion, request>>
\* the comment sink and the console
sinkVars == <<calls, out, cursor>>

vars == <<setupVars, pc, cfg, adapter, diff, reviewVars, review, stats,
          sinkVars, exitCode, error>>

NoConfig == Config("github", FALSE, FALSE, FALSE, FALSE, FALSE, 0, DefaultFocus)
NoAdapter == [inline |-> FALSE, status |-> FALSE]
NoHeuristic == [comments |-> <<>>, addedLines |-> 0]

InitCommon ==
  /\ engine \in Engines
  /\ heuristic = NoHeuristic
  /\ aiComments = <<>>
  /\ aiUsed = FALSE
  /\ aiCalls = 0
  /\ completion = <<>>
  /\ request = <<>>
  /\ stats = <<>>
  /\ calls = <<>>
  /\ out = <<>>
  /\ cursor = 0
  /\ exitCode = 0
  /\ error = <<>>

\* main(process.argv) is about to run
Init ==
  /\ InitCommon
  /\ entry = "main"
  /\ pc = "main"
  /\ cfg = NoConfig
  /\ adapter = NoAdapter
  /\ diff = EmptyDiff
  /\ review = <<>>

\* runReview(diff, cfg) is about to run
InitReview ==
  /\ InitCommon
  /\ entry = "review"
  /\ pc = "runReview"
  /\ cfg \in ReviewConfigs
  /\ adapter = NoAdapter
  /\ diff \in ReviewDiffs
  /\ review = <<>>

\* postReview or formatSummaryCLI is about to be called
InitPost ==
  /\ InitCommon
  /\ entry = "post"
  /\ pc = "call"
  /\ cfg \in PostConfigs
  /\ adapter \in {[inline |-> i, status |-> FALSE] : i \in BOOLEAN}
  /\ diff = EmptyDiff
  /\ review \in {<<r>> : r \in PostResults}

(* ------------------------------ main ----------------------------------- *)

\* main: loadConfig, then execute's createAdapter; a ZodError ends the run
LoadConfig(raw) ==
  /\ pc = "main"
  /\ IF schemaOk(raw)
       THEN /\ cfg' = loadConfig(raw)
            /\ adapter' = createAdapter(raw.provider)
            /\ pc' = "fetch"
            /\ UNCHANGED <<exitCode, error>>
       ELSE /\ exitCode' = 1
            /\ error' = <<"Invalid configuration">>
            /\ pc' = "done"
            /\ UNCHANGED <<cfg, adapter>>
  /\ UNCHANGED <<setupVars, diff, reviewVars, review, stats, sinkVars>>

\* fetchDiff calls adapter.getDiff() and is suspended at the await
FetchDiff ==
  /\ pc = "fetch"
  /\ pc' = "awaitDiff"
  /\ UNCHANGED <<setupVars, cfg, adapter, diff, reviewVars, review, stats,
                 sinkVars, exitCode, error>>

\* fetchDiff: getDiff resolved
FetchDiffOk(d) ==
  /\ pc = "awaitDiff"
  /\ d \in getDiffResults(cfg.provider)
  /\ diff' = normalize(d)
  /\ pc' = "runReview"
  /\ UNCHANGED <<setupVars, cfg, adapter, reviewVars, review, stats, sinkVars,
                 exitCode, error>>

\* a variant of FetchDiffFail that logs the wrapped error and goes on to review
\* an empty diff
FetchDiffSwallowed(e) ==
  /\ pc = "awaitDiff"
  /\ e \in getDiffErrors(cfg.provider)
  /\ error' = <<"Failed to fetch diff: " \o e>>
  /\ diff' = EmptyDiff
  /\ pc' = "runReview"
  /\ UNCHANGED <<setupVars, cfg, adapter, reviewVars, review, stats, sinkVars,
                 exitCode>>

\* fetchDiff: getDiff rejected; the wrapped error reaches execute's catch
FetchDiffFail(e) ==
  /\ pc = "awaitDiff"
  /\ e \in getDiffErrors(cfg.provider)
  /\ error' = <<"Failed to fetch diff: " \o e>>
  /\ exitCode' = 1
  /\ pc' = "done"
  /\ UNCHANGED <<setupVars, cfg, adapter, diff, reviewVars, review, stats,
                 sinkVars>>

(* ------------------------------ runReview ------------------------------ *)

\* runReview up to the AI call
ReviewBegin ==
  /\ pc = "runReview"
  /\ heuristic' = runHeuristic(diff, engine)
  /\ aiComments' = <<>>
  /\ aiUsed' = FALSE
  /\ pc' = IF cfg.aiEnabled THEN "runAI" ELSE "merge"
  /\ UNCHANGED <<setupVars, cfg, adapter, diff, aiCalls, completion, request,
                 review, stats, sinkVars, exitCode, error>>

\* runAI builds the prompts and calls openai.chat.completions.parse: the
\* request leaves, runAI and runReview are suspended at the await
AIRequest ==
  /\ pc = "runAI"
  /\ aiCalls' = aiCalls + 1
  /\ request' = <<trimmedDiff(diff)>>
  /\ pc' = "awaitAI"
  /\ UNCHANGED <<setupVars, cfg, adapter, diff, heuristic, aiComments, aiUsed,
                 completion, review, stats, sinkVars, exitCode, error>>

\* a variant of AIReturn that sends the request a second time when the first
\* one failed
AIReturnRetrying(c) ==
  /\ pc = "awaitAI"
  /\ ~runAIThrows(c, engine)
  /\ completion' = <<c>>
  /\ IF c.kind = "error" /\ aiCalls = 1
       THEN /\ pc' = "runAI"
            /\ UNCHANGED <<aiComments, aiUsed>>
       ELSE /\ aiComments' = runAI(c, engine)
            /\ aiUsed' = TRUE
            /\ pc' = "merge"
  /\ UNCHANGED <<setupVars, cfg, adapter, diff, heuristic, aiCalls, request,
                 review, stats, sinkVars, exitCode, error>>

\* the service's answer is delivered and runAI returns (with the service's
\* comments, or with a synthetic comment); runReview sets aiUsed
AIReturn(c) ==
  /\ pc = "awaitAI"
  /\ ~runAIThrows(c, engine)
  /\ completion' = <<c>>
  /\ aiComments' = runAI(c, engine)
  /\ aiUsed' = TRUE
  /\ pc' = "merge"
  /\ UNCHANGED <<setupVars, cfg, adapter, diff, heuristic, aiCalls, request,
                 review, stats, sinkVars, exitCode, error>>

\* the service's rejection is delivered: runAI sets process.exitCode and
\* throws; runReview rejects; under main, execute's catch logs the error and
\* sets process.exitCode again
AIThrow(c) ==
  /\ pc = "awaitAI"
  /\ runAIThrows(c, engine)
  /\ completion' = <<c>>
  /\ exitCode' = 1
  /\ error' = <<AIFailedMsg(c.err)>>
  /\ pc' = "done"
  /\ UNCHANGED <<setupVars, cfg, adapter, diff, heuristic, aiComments, aiUsed,
                 aiCalls, request, review, stats, sinkVars>>

\* merge, truncate, summarise and return
MergeStep ==
  /\ pc = "merge"
  /\ review' = <<ReviewResult(diff, heuristic, aiComments, aiUsed, cfg.maxComments)>>
  /\ pc' = IF entry = "main" THEN "output" ELSE "done"
  /\ UNCHANGED <<setupVars, cfg, adapter, diff, reviewVars, stats, sinkVars,
                 exitCode, error>>

(* ------------------------------ execute -------------------------------- *)

LogLine(text) == [kind |-> "log", json |-> <<>>, text |-> <<text>>]

\* the envelope execute prints in JSON mode
JsonEnvelope(r, c) ==
  [kind |-> "json",
   json |-> <<[summary |-> r.summary, comments |-> r.comments,
               stats |-> r.rawDiffStats, aiUsed |-> r.aiUsed,
               provider |-> c.provider, pullRequestId |-> "1"]>>,
   text |-> <<>>]

\* the line execute logs for one comment in dry-run mode
DryRunLine(c) ==
  LogLine("- "
            \o (IF hasLocation(c) THEN c.file.s \o ":" \o numberText(c.line)
                ELSE "(no location)")
            \o " " \o c.message)

DryRunLines(r) ==
  << LogLine("[PandaOps] --- DRY RUN ---"), LogLine(r.summary) >>
    \o [i \in DOMAIN r.comments |-> DryRunLine(r.comments[i])]

CliSummary(lines) == [kind |-> "cli", json |-> <<>>, text |-> lines]

TypeErrorMsg == "Cannot read properties of undefined (reading 'failOnWarnings')"

\* JSON mode: print the envelope
EmitJson ==
  /\ pc = "output"
  /\ cfg.outputJson
  /\ out' = Append(out, JsonEnvelope(review[1], cfg))
  /\ pc' = "exitCheck"
  /\ UNCHANGED <<setupVars, cfg, adapter, diff, reviewVars, review, stats,
                 calls, cursor, exitCode, error>>

\* dry-run mode: log the comments, then formatSummaryCLI(review); execute passes
\* no cfg, so the call throws into execute's catch before anything is returned
DryRun ==
  /\ pc = "output"
  /\ ~cfg.outputJson
  /\ cfg.dryRun
  /\ IF readsUndefined(NoCfg)
       THEN /\ out' = out \o DryRunLines(review[1])
            /\ error' = <<TypeErrorMsg>>
            /\ exitCode' = 1
            /\ pc' = "done"
            /\ UNCHANGED stats
       ELSE /\ out' = out \o DryRunLines(review[1])
                        \o <<CliSummary(formatSummaryCLI(review[1], cfg))>>
            /\ stats' = <<summarizeResult(review[1], cfg)>>
            /\ pc' = "exitCheck"
            /\ UNCHANGED <<error, exitCode>>
  /\ UNCHANGED <<setupVars, cfg, adapter, diff, reviewVars, review, calls, cursor>>

\* postReview up to its first sink call: formatSummary(result, cfg)
EnterPostReview(cfgArg) ==
  IF readsUndefined(cfgArg)
    THEN /\ error' = <<TypeErrorMsg>>
         /\ exitCode' = IF entry = "main" THEN 1 ELSE exitCode
         /\ pc' = "done"
         /\ UNCHANGED stats
    ELSE /\ stats' = <<summarizeResult(review[1], cfgArg[1])>>
         /\ pc' = "postSummary"
         /\ UNCHANGED <<error, exitCode>>

\* normal mode: postReview(adapter, review); execute passes no cfg, so the
\* call throws into execute's catch; the code after it (adapter.setReviewStatus)
\* is never reached
ExecutePost ==
  /\ pc = "output"
  /\ ~cfg.outputJson
  /\ ~cfg.dryRun
  /\ EnterPostReview(NoCfg)
  /\ UNCHANGED <<setupVars, cfg, adapter, diff, reviewVars, review, sinkVars>>

\* the failOnComments check that ends execute's try block
ExitCheck ==
  /\ pc = "exitCheck"
  /\ exitCode' = IF cfg.failOnComments /\ Len(review[1].comments) > 0
                   THEN 2 ELSE exitCode
  /\ pc' = "done"
  /\ UNCHANGED <<setupVars, cfg, adapter, diff, reviewVars, review, stats,
                 sinkVars, error>>

(* ------------------------------ postReview ----------------------------- *)

\* a call the sink has received: its arguments and its outcome, "pending"
\* until the adapter's promise is settled, then "resolved" or "rejected"
SinkCall(op, idx, file, line, body, outcome) ==
  [op |-> op, idx |-> idx, file |-> file, line |-> line, body |-> body,
   outcome |-> outcome]

\* the outcome of a settled promise
settled(ok) == IF ok THEN "resolved" ELSE "rejected"

\* the calls, the last of which is settled
settleLast(cs, ok) == [cs EXCEPT ![Len(cs)].outcome = settled(ok)]

Located(comments, from) ==
  {j \in DOMAIN comments : j > from /\ hasLocation(comments[j])}

\* the next comment after from that the loop posts (Len + 1 when none)
NextLocated(comments, from) ==
  IF Located(comments, from) = {} THEN Len(comments) + 1
  ELSE CHOOSE j \in Located(comments, from) :
         \A k \in Located(comments, from) : j <= k

\* a variant of afterTry without the catch: a rejected call ends postReview
afterTryNoCatch(ok, nextPc) == IF ok THEN nextPc ELSE "done"

\* try { await call } catch { log }: control goes on whether the call
\* resolved (ok) or rejected
afterTry(ok, nextPc) == nextPc

\* where postReview goes after a sink call
AfterPost(next) ==
  IF adapter.inline /\ next <= Len(review[1].comments) THEN "postInline" ELSE "done"

\* postReview(adapter, result, cfg) called with all three arguments
CallPostReview ==
  /\ pc = "call"
  /\ EnterPostReview(<<cfg>>)
  /\ UNCHANGED <<setupVars, cfg, adapter, diff, reviewVars, review, sinkVars>>

\* adapter.postComment(summary) is called; postReview is suspended at the await
PostSummary ==
  /\ pc = "postSummary"
  /\ calls' = Append(calls, SinkCall("postComment", 0, Undef, Undef,
                                     formatSummary(review[1], cfg), "pending"))
  /\ pc' = "awaitSummary"
  /\ UNCHANGED <<setupVars, cfg, adapter, diff, reviewVars, review, stats, out,
                 cursor, exitCode, error>>

\* the summary call resolved (ok) or rejected and was logged; the inline loop
\* starts at the first comment with a location
PostSummarySettled(ok) ==
  /\ pc = "awaitSummary"
  /\ calls' = settleLast(calls, ok)
  /\ cursor' = NextLocated(review[1].comments, 0)
  /\ pc' = afterTry(ok, AfterPost(cursor'))
  /\ UNCHANGED <<setupVars, cfg, adapter, diff, reviewVars, review, stats, out,
                 exitCode, error>>

\* adapter.postInlineComment is called for the comment at cursor; postReview
\* is suspended at the await
PostInline ==
  /\ pc = "postInline"
  /\ LET c == review[1].comments[cursor]
     IN calls' = Append(calls, SinkCall("postInlineComment", cursor, c.file,
                                        c.line, <<beautifyTagPrefix(c.message)>>,
                                        "pending"))
  /\ pc' = "awaitInline"
  /\ UNCHANGED <<setupVars, cfg, adapter, diff, reviewVars, review, stats, out,
                 cursor, exitCode, error>>

\* the inline call resolved (ok) or rejected and was logged; the loop goes on
\* to the next comment with a location
PostInlineSettled(ok) ==
  /\ pc = "awaitInline"
  /\ calls' = settleLast(calls, ok)
  /\ cursor' = NextLocated(review[1].comments, cursor)
  /\ pc' = afterTry(ok, AfterPost(cursor'))
  /\ UNCHANGED <<setupVars, cfg, adapter, diff, reviewVars, review, stats, out,
                 exitCode, error>>

\* formatSummaryCLI(result, cfg) called with both arguments
CallFormatSummaryCLI ==
  /\ pc = "call"
  /\ stats' = <<summarizeResult(review[1], cfg)>>
  /\ out' = Append(out, CliSummary(formatSummaryCLI(review[1], cfg)))
  /\ pc' = "done"
  /\ UNCHANGED <<setupVars, cfg, adapter, diff, reviewVars, review, calls,
                 cursor, exitCode, error>>

(* ---------------------------- specifications --------------------------- *)

Next ==
  \/ \E raw \in RawConfigs : LoadConfig(raw)
  \/ FetchDiff
  \/ \E d \in GithubDiffs \cup {BitbucketDiff, AzureDiff} : FetchDiffOk(d)
  \/ \E e \in getDiffErrors("github") : FetchDiffFail(e)
  \/ ReviewBegin
  \/ AIRequest
  \/ \E c \in Completions(entry) : AIReturn(c)
  \/ \E c \in Completions(entry) : AIThrow(c)
  \/ MergeStep
  \/ EmitJson
  \/ DryRun
  \/ ExecutePost
  \/ ExitCheck

Spec == Init /\ [][Next]_vars

NextReview ==
  \/ ReviewBegin
  \/ AIRequest
  \/ \E c \in Completions(entry) : AIReturn(c)
  \/ \E c \in Completions(entry) : AIThrow(c)
  \/ MergeStep

SpecReview == InitReview /\ [][NextReview]_vars

NextPost ==
  \/ CallPostReview
  \/ PostSummary
  \/ \E ok \in BOOLEAN : PostSummarySettled(ok)
  \/ PostInline
  \/ \E ok \in BOOLEAN : PostInlineSettled(ok)
  \/ CallFormatSummaryCLI

SpecPost == InitPost /\ [][NextPost]_vars

(* -------------------------------- claims ------------------------------- *)

AnyTag(cs, tag) == \E i \in DOMAIN cs : testI(tag, cs[i].message)

CountMsg(cs, m) == Cardinality({i \in DOMAIN cs : cs[i].message = m})

\* runReview has returned a ReviewResult (under main execute holds it from
\* then on; the poster's entry point is handed a result runReview did not make)
Returned == entry # "post" /\ review # <<>>

\* the completion service was called and the call failed
AIFailed == completion # <<>> /\ completion[1].kind = "error"

\* maxComments is large enough to keep every heuristic and every AI comment
NoTruncation == cfg.maxComments >= Len(heuristic.comments) + Len(aiComments)

IsPrefix(s, t) == Len(s) <= Len(t) /\ s = SubSeq(t, 1, Len(s))

\* C1: summarizeResult returns CHANGES_REQUESTED exactly when a comment counts
\* as [ERROR], or failOnWarnings is set and a comment counts as [ERROR] or
\* [WARN]; otherwise APPROVED; hasIssues is true iff the status is
\* CHANGES_REQUESTED.
C1_StatusDecision ==
  stats # <<>> =>
    LET cs == review[1].comments
        anyError == AnyTag(cs, "[ERROR]")
        anyWarn == AnyTag(cs, "[WARN]")
        changes == anyError \/ (cfg.failOnWarnings /\ (anyError \/ anyWarn))
    IN /\ stats[1].status = (IF changes THEN "CHANGES_REQUESTED" ELSE "APPROVED")
       /\ stats[1].hasIssues = (stats[1].status = "CHANGES_REQUESTED")

\* a list with [WARN] comments only, classified under failOnWarnings
C1_Witness ==
  /\ stats # <<>>
  /\ cfg.failOnWarnings
  /\ AnyTag(review[1].comments, "[WARN]")
  /\ ~AnyTag(review[1].comments, "[ERROR]")
  /\ stats[1].status = "CHANGES_REQUESTED"

\* the status execute computes for setReviewStatus: CHANGES_REQUESTED when a
\* message holds [ERROR] or [WARN], whatever failOnWarnings is
executeStatus(result) ==
  IF AnyTag(result.comments, "[ERROR]") \/ AnyTag(result.comments, "[WARN]")
    THEN "CHANGES_REQUESTED" ELSE "APPROVED"

\* a normal-mode run of main that got a ReviewResult and has ended
NormalRunEnded ==
  /\ entry = "main"
  /\ pc = "done"
  /\ review # <<>>
  /\ ~cfg.outputJson
  /\ ~cfg.dryRun

\* C2: in normal mode with an adapter that has setReviewStatus, for a result
\* with a [WARN] comment and no [ERROR] comment, the status passed to
\* setReviewStatus is the status summarizeResult computes for that result and
\* configuration (CHANGES_REQUESTED iff failOnWarnings).
C2_StatusSent ==
  (/\ NormalRunEnded
   /\ adapter.status
   /\ AnyTag(review[1].comments, "[WARN]")
   /\ ~AnyTag(review[1].comments, "[ERROR]")) =>
    /\ \E i \in DOMAIN calls : calls[i].op = "setReviewStatus"
    /\ executeStatus(review[1]) = summarizeResult(review[1], cfg).status
    /\ executeStatus(review[1]) =
         (IF cfg.failOnWarnings THEN "CHANGES_REQUESTED" ELSE "APPROVED")

\* C3 as stated: without truncation, a message that a heuristic comment and an
\* AI comment share occurs exactly once in the merged result.
C3_ExactlyOne ==
  (Returned /\ NoTruncation) =>
    \A i \in DOMAIN heuristic.comments :
      (\E j \in DOMAIN aiComments :
         aiComments[j].message = heuristic.comments[i].message) =>
        CountMsg(review[1].comments, heuristic.comments[i].message) = 1

\* C3 (amended): without truncation, a message that a heuristic comment and an
\* AI comment share occurs in the merged result exactly as often as among the
\* heuristic comments, and never on a comment of source ai.
C3_Dedup ==
  (Returned /\ NoTruncation) =>
    \A i \in DOMAIN heuristic.comments :
      LET m == heuristic.comments[i].message
      IN (\E j \in DOMAIN aiComments : aiComments[j].message = m) =>
           /\ CountMsg(review[1].comments, m) = CountMsg(heuristic.comments, m)
           /\ \A k \in DOMAIN review[1].comments :
                review[1].comments[k].message = m =>
                  review[1].comments[k].source = "heuristic"

\* a heuristic message, found once, that the AI repeats, merged to one comment
C3_Witness ==
  /\ Returned
  /\ NoTruncation
  /\ \E i \in DOMAIN heuristic.comments :
       /\ \E j \in DOMAIN aiComments :
            aiComments[j].message = heuristic.comments[i].message
       /\ CountMsg(heuristic.comments, heuristic.comments[i].message) = 1
       /\ CountMsg(review[1].comments, heuristic.comments[i].message) = 1
  /\ Len(aiComments) = 2

\* C4: with P the pre-truncation merge and k = maxComments, the result is the
\* first k entries of P (exactly k of them) when P has more than k, and P
\* itself otherwise; heuristic comments precede AI comments.
C4_Truncation ==
  Returned =>
    LET P == mergeComments(heuristic.comments, aiComments)
        k == cfg.maxComments
        R == review[1].comments
    IN /\ Len(P) > k => (Len(R) = k /\ R = SubSeq(P, 1, k))
       /\ Len(P) <= k => R = P
       /\ \A i, j \in DOMAIN R :
            (R[i].source = "heuristic" /\ R[j].source = "ai") => i < j

\* C5: when the completion call fails under the fail-hard variant, no
\* ReviewResult is produced, no JSON envelope is printed, no sink method is
\* called, and the run ends with exit code 1.
C5_FailHard ==
  (engine = "failhard" /\ AIFailed) =>
    /\ review = <<>>
    /\ \A i \in DOMAIN out : out[i].kind # "json"
    /\ calls = <<>>
    /\ pc = "done"
    /\ exitCode = 1

\* a fail-hard run with failOnComments set and heuristic comments found
C5_Witness ==
  /\ engine = "failhard"
  /\ AIFailed
  /\ pc = "done"
  /\ cfg.failOnComments
  /\ cfg.outputJson
  /\ heuristic.comments # <<>>
  /\ exitCode = 1

\* C6: when the completion call fails under the degrade variant, runAI returns
\* exactly one comment, of source ai, whose message begins with "AI error: ";
\* runReview returns a ReviewResult with aiUsed true, whose comments are a
\* prefix of the heuristic comments followed by that comment.
C6_Degrade ==
  (engine = "degrade" /\ AIFailed) =>
    /\ Len(aiComments) = 1
    /\ aiComments[1].source = "ai"
    /\ startsWith(aiComments[1].message, "AI error: ")
    /\ aiComments[1].message = "AI error: " \o completion[1].err
    /\ aiUsed
    /\ error = <<>>
    /\ pc \in {"merge", "done"}
    /\ pc = "done" =>
         /\ review # <<>>
         /\ review[1].aiUsed
         /\ IsPrefix(review[1].comments, heuristic.comments \o aiComments)
         /\ review[1].rawDiffStats.addedLines = heuristic.addedLines

\* a degraded review that returned the failure comment after a heuristic one
C6_Witness ==
  /\ engine = "degrade"
  /\ AIFailed
  /\ Returned
  /\ review[1].aiUsed
  /\ Len(review[1].comments) = 2
  /\ review[1].comments[2].message = "AI error: timeout"

\* C7: the exit code at the end of a run is 1 if configuration loading, diff
\* retrieval or the review failed, else 2 if failOnComments is set and the
\* result has a comment (in every output mode), else 0.
C7_ExitCode ==
  pc = "done" =>
    exitCode = (IF review = <<>> THEN 1
                ELSE IF cfg.failOnComments /\ Len(review[1].comments) > 0 THEN 2
                ELSE 0)

\* the sink's postInlineComment calls, in order
IsInlineCall(c) == c.op = "postInlineComment"
InlineCalls == SelectSeq(calls, IsInlineCall)

\* the indices of the comments with a non-empty file and a numeric line
RECURSIVE LocatedFrom(_, _)
LocatedFrom(cs, i) ==
  IF i > Len(cs) THEN <<>>
  ELSE (IF cs[i].file.k = "string" /\ cs[i].file.s # "" /\ cs[i].line.k = "number"
          THEN <<i>> ELSE <<>>) \o LocatedFrom(cs, i + 1)

\* postReview has returned
Posted == pc = "done" /\ calls # <<>>

\* the inline calls are one per index of want, in order, with its location
InlineCallsAre(want) ==
  LET cs == review[1].comments
      inl == InlineCalls
  IN /\ Len(inl) = Len(want)
     /\ \A k \in DOMAIN inl :
          /\ k <= Len(want)
          /\ inl[k].idx = want[k]
          /\ inl[k].file = cs[want[k]].file
          /\ inl[k].line = cs[want[k]].line

\* C8 as stated: every comment with a file and a numeric line gets exactly one
\* postInlineComment attempt, in result order, whatever calls failed.
C8_EveryLocated ==
  Posted => InlineCallsAre(LocatedFrom(review[1].comments, 1))

\* when postReview has returned, the summary was attempted first, then one
\* inline attempt per located comment if the adapter has postInlineComment
C8_Attempts ==
  Posted =>
    /\ calls[1].op = "postComment"
    /\ \A i \in DOMAIN calls : calls[i].outcome # "pending"
    /\ Len(calls) = 1 + Len(InlineCalls)
    /\ InlineCallsAre(IF adapter.inline
                        THEN LocatedFrom(review[1].comments, 1) ELSE <<>>)
    /\ error = <<>>

\* C8 (amended): when the adapter provides postInlineComment, every comment
\* with a non-empty file and a numeric line gets exactly one postInlineComment
\* attempt, in result order, whatever sink calls failed, and no other comment
\* gets one (no comment does when the adapter lacks it); postReview returns
\* without raising and leaves the ReviewResult unchanged.
C8_Posting == [](C8_Attempts) /\ [][review' = review]_vars

\* the summary and the first inline post failed, and the second was attempted
C8_Witness ==
  /\ Posted
  /\ adapter.inline
  /\ Len(calls) = 3
  /\ calls[1].outcome = "rejected"
  /\ calls[2].outcome = "rejected"
  /\ calls[3].op = "postInlineComment"
  /\ calls[3].idx = 2

\* C9: in normal mode the summary postComment attempt comes first, then the
\* inline attempts, then setReviewStatus, exactly once if the adapter
\* provides it (also when earlier posts failed) and never otherwise.
C9_SinkOrder ==
  NormalRunEnded =>
    LET n == Len(calls)
        statusCalls == {i \in DOMAIN calls : calls[i].op = "setReviewStatus"}
    IN /\ n >= 1
       /\ calls[1].op = "postComment"
       /\ \A i \in 2..n :
            \/ calls[i].op = "postInlineComment"
            \/ (i = n /\ calls[i].op = "setReviewStatus")
       /\ statusCalls = (IF adapter.status THEN {n} ELSE {})

\* C10: with dryRun or outputJson set no sink method is ever called; and a
\* dry-run whose diff retrieval and review succeeded has printed the
\* per-comment lines and the CLI summary and ends with exit code 0, or 2
\* under failOnComments with comments.
C10_DryRun ==
  /\ (cfg.outputJson \/ cfg.dryRun) => calls = <<>>
  /\ (pc = "done" /\ review # <<>> /\ cfg.dryRun /\ ~cfg.outputJson) =>
       /\ \A i \in DOMAIN review[1].comments :
            \E j \in DOMAIN out : out[j] = DryRunLine(review[1].comments[i])
       /\ \E j \in DOMAIN out : out[j].kind = "cli"
       /\ exitCode = (IF cfg.failOnComments /\ Len(review[1].comments) > 0
                        THEN 2 ELSE 0)

\* fetchDiff raised its error: the adapter's getDiff failed
FetchFailed == error # <<>> /\ startsWith(error[1], "Failed to fetch diff: ")

\* C11: when the adapter's getDiff fails, fetchDiff raises one error whose
\* message is 'Failed to fetch diff: ' followed by the original message, and
\* the run ends there: the scanner and the AI reviewer never run, the
\* completion service is never called, nothing is posted or printed as JSON,
\* and the exit code is 1.
C11_FetchFailure ==
  FetchFailed =>
    /\ \E e \in getDiffErrors(cfg.provider) :
         error = <<"Failed to fetch diff: " \o e>>
    /\ pc = "done"
    /\ heuristic = NoHeuristic
    /\ aiUsed = FALSE
    /\ aiCalls = 0
    /\ completion = <<>>
    /\ review = <<>>
    /\ calls = <<>>
    /\ \A i \in DOMAIN out : out[i].kind # "json"
    /\ exitCode = 1

\* a JSON-mode run under failOnComments whose getDiff answered 404
C11_Witness ==
  /\ pc = "done"
  /\ error = <<"Failed to fetch diff: Request failed with status code 404">>
  /\ cfg.outputJson
  /\ cfg.failOnComments
  /\ exitCode = 1

\* C12: a runReview invocation makes exactly one request to the completion
\* service when aiEnabled is true and none when it is false; under either
\* failure policy a failed request is not retried, so the count never
\* exceeds one.
C12_OneRequest ==
  /\ aiCalls <= 1
  /\ pc \in {"runReview", "runAI"} => aiCalls = 0
  /\ pc = "awaitAI" => (aiCalls = 1 /\ completion = <<>>)
  /\ pc \in {"merge", "done"} =>
       /\ aiCalls = (IF cfg.aiEnabled THEN 1 ELSE 0)
       /\ Len(completion) = aiCalls

\* a request that failed under the fail-hard variant, made once
C12_Witness ==
  /\ pc = "done"
  /\ AIFailed
  /\ aiCalls = 1
  /\ engine = "failhard"

\* the scanner has run on the diff: runReview is past its first line, or the
\* run has ended after runReview returned a result or runAI threw
Scanned ==
  /\ entry # "post"
  /\ \/ pc \in {"runAI", "awaitAI", "merge", "output", "exitCheck"}
     \/ pc = "done" /\ (review # <<>> \/ aiCalls > 0)

\* the lines of the diff that start with '+' but not with '+++'
RECURSIVE PlusLines(_)
PlusLines(d) ==
  IF d = <<>> THEN 0
  ELSE LET l == Head(d).line
           plus == Len(l) >= 1 /\ charAt(l, 1) = "+"
           header == Len(l) >= 3 /\ SubSeq(l, 1, 3) = "+++"
       IN (IF plus /\ ~header THEN Head(d).n ELSE 0) + PlusLines(Tail(d))

\* C13: the addedLines the scanner returns, and rawDiffStats.addedLines of the
\* result, is the number of lines of the diff that start with '+' but not
\* with '+++' (lines starting with '---' or 'diff ' are not among them),
\* whatever comments the merge and the truncation keep.
C13_AddedLines ==
  /\ Scanned => heuristic.addedLines = PlusLines(diff)
  /\ Returned => review[1].rawDiffStats.addedLines = PlusLines(diff)

\* the diff with headers, a removed line and three added lines, truncated to
\* no comment at all
C13_Witness ==
  /\ Returned
  /\ diff = HeaderDiff
  /\ review[1].rawDiffStats.addedLines = 3
  /\ review[1].comments = <<>>
  /\ heuristic.comments # <<>>

\* no rule of the variant matches the content of an added line of the diff
NoRuleMatches ==
  \A i \in DOMAIN diff :
    LET l == diff[i].line
        content == slice(l, 1)
    IN IsAddedLine(l) =>
         /\ ~testI("TODO", content)
         /\ ~test("console.log", content)
         /\ ~test("debugger", content)
         /\ engine = "failhard" => ~testWord("any", content)

\* C14 as stated: when no added line matches a rule, the scanner returns no
\* comment and addedLines is 0.
C14_NoMatchZero ==
  (Scanned /\ NoRuleMatches) =>
    /\ heuristic.comments = <<>>
    /\ heuristic.addedLines = 0

\* C14 (amended): when no added line matches a rule, the scanner returns no
\* comment other than the large-diff warning (none at all up to 500 added
\* lines), and addedLines is the number of added lines, which is 0 only when
\* the diff has no added line.
C14_NoMatch ==
  (Scanned /\ NoRuleMatches) =>
    /\ heuristic.addedLines <= LargeDiffLimit => heuristic.comments = <<>>
    /\ heuristic.addedLines > LargeDiffLimit =>
         heuristic.comments =
           <<HeuristicComment(LargeDiffMsg(heuristic.addedLines))>>
    /\ heuristic.addedLines = PlusLines(diff)
    /\ heuristic.addedLines = 0 <=>
         \A i \in DOMAIN diff : ~IsAddedLine(diff[i].line)

\* two added lines that match no rule: no comment, addedLines 2
C14_Witness ==
  /\ Scanned
  /\ NoRuleMatches
  /\ heuristic.comments = <<>>
  /\ heuristic.addedLines = 2

IsLargeDiffComment(c) == startsWith(c.message, "Large diff with ")

\* C15: the scanner appends the large-diff warning, once and as the last
\* comment, exactly when addedLines > 500: 501 added lines that match no rule
\* give the warning alone, 500 give no comment.
C15_LargeDiff ==
  Scanned =>
    LET cs == heuristic.comments
        warnings == {i \in DOMAIN cs : IsLargeDiffComment(cs[i])}
    IN /\ heuristic.addedLines > 500 =>
            /\ warnings = {Len(cs)}
            /\ cs[Len(cs)] = HeuristicComment(LargeDiffMsg(heuristic.addedLines))
       /\ heuristic.addedLines <= 500 => warnings = {}
       /\ (NoRuleMatches /\ heuristic.addedLines = 501) => Len(cs) = 1
       /\ (NoRuleMatches /\ heuristic.addedLines = 500) => cs = <<>>

\* 501 added lines, one of them a debugger statement: its comment, then the
\* warning
C15_Witness ==
  /\ Scanned
  /\ heuristic.addedLines = 501
  /\ Len(heuristic.comments) = 2
  /\ heuristic.comments[1].message = DebuggerMsg
  /\ IsLargeDiffComment(heuristic.comments[2])

\* C16: the diff text sent to the completion service never exceeds 60,000
\* characters: a diff of at most 60,000 characters is sent unchanged, and a
\* longer one is cut so that the cut diff together with the truncation marker
\* stays within the bound.
C16_SentWithinBound ==
  request # <<>> =>
    /\ request[1].chars <= 60000
    /\ length(diff) <= 60000 =>
         (request[1].chars = length(diff) /\ ~request[1].marker)

Categories == {"errors", "warns", "tips", "notes", "grammar"}

\* the label of a category's line in the plain summary and in the markdown one
CliLabel(c) ==
  CASE c = "errors" -> "Errors: "
    [] c = "warns" -> "Warnings: "
    [] c = "tips" -> "Tips: "
    [] c = "notes" -> "Notes: "
    [] OTHER -> "Grammar: "
MarkdownLabel(c) ==
  CASE c = "errors" -> "- Errors: "
    [] c = "warns" -> "- Warnings: "
    [] c = "tips" -> "- Tips: "
    [] c = "notes" -> "- Notes: "
    [] OTHER -> "- Grammar: "

HasLine(lines, label) == \E i \in DOMAIN lines : startsWith(lines[i], label)

\* the focus switch of a category is enabled (the first three default to true)
FocusEnabled(c, config) ==
  CASE c = "errors" -> config.focusErrors # "false"
    [] c = "warns" -> config.focusWarn # "false"
    [] c = "tips" -> config.focusTips # "false"
    [] c = "notes" -> config.focusNotes = "true"
    [] OTHER -> config.focusGrammar = "true"

\* C17: the plain summary has a count line for a category exactly when that
\* category's focus switch is enabled, that is, exactly when the markdown
\* summary of the same result and configuration has one; with zero comments
\* it is the 'no issues' variant with status APPROVED.
C17_CliCategoryLines ==
  \A j \in DOMAIN out :
    out[j].kind = "cli" =>
      LET lines == out[j].text
      IN IF review[1].comments = <<>>
           THEN /\ HasLine(lines, "No issues found - looks great!")
                /\ lines[Len(lines)] = "Status: APPROVED"
                /\ \A c \in Categories : ~HasLine(lines, CliLabel(c))
           ELSE \A c \in Categories :
                  /\ HasLine(lines, CliLabel(c)) <=> FocusEnabled(c, cfg)
                  /\ HasLine(lines, CliLabel(c)) <=>
                       HasLine(formatSummary(review[1], cfg), MarkdownLabel(c))

\* C18: a comment is counted in a category exactly when its message begins
\* with that category's tag (case-insensitively); a tag later in the message
\* does not count, and the five counts together never exceed total.
C18_PrefixCounts ==
  stats # <<>> =>
    LET cs == review[1].comments
        st == stats[1]
        PrefixCount(list, tag) ==
          Cardinality({i \in DOMAIN list :
                         startsWith(toUpper(list[i].message), tag)})
    IN /\ st.errors = PrefixCount(cs, "[ERROR]")
       /\ st.warns = PrefixCount(cs, "[WARN]")
       /\ st.tips = PrefixCount(cs, "[TIP]")
       /\ st.notes = PrefixCount(cs, "[NOTE]")
       /\ st.grammar = PrefixCount(cs, "[GRAMMAR]")
       /\ st.errors + st.warns + st.tips + st.notes + st.grammar <= st.total

\* C19: in every ReviewResult runReview returns, aiUsed is true exactly when
\* the completion service was called in that pass, that is, exactly when
\* aiEnabled was true, whatever the call's outcome; with aiEnabled false every
\* comment of the result has source heuristic.
C19_AiUsed ==
  Returned =>
    /\ review[1].aiUsed <=> aiCalls > 0
    /\ review[1].aiUsed <=> cfg.aiEnabled
    /\ ~cfg.aiEnabled =>
         \A i \in DOMAIN review[1].comments :
           review[1].comments[i].source = "heuristic"

\* the service answered with an empty comments array: aiUsed is still true
C19_Witness ==
  /\ Returned
  /\ completion # <<>>
  /\ completion[1].kind = "ok"
  /\ completion[1].comments = <<>>
  /\ heuristic.comments # <<>>
  /\ review[1].aiUsed

\* C20: no comment of a ReviewResult has a line without a file, whatever
\* schema-valid response the AI comments were built from.
C20_LineWithFile ==
  Returned =>
    \A i \in DOMAIN review[1].comments :
      LET c == review[1].comments[i]
      IN c.line.k = "number" => c.file.k = "string"

\* the merged sequence before truncation: the heuristic comments, then the
\* AI comments whose message is not there yet
PreTruncation == mergeComments(heuristic.comments, aiComments)

\* C21: whenever the AI service call fails, the run either aborts with a
\* non-zero exit code or returns a ReviewResult whose comments contain the
\* synthetic AI failure comment, also when the heuristic comments alone reach
\* maxComments (or maxComments is 0) and truncation applies.
C21_FailureSurfaced ==
  (pc = "done" /\ AIFailed /\ cfg.maxComments >= 0) =>
    \/ exitCode # 0
    \/ /\ review # <<>>
       /\ \E i \in DOMAIN review[1].comments :
            /\ review[1].comments[i].source = "ai"
            /\ review[1].comments[i].message = AIErrorMsg(completion[1].err)

\* the summary is the 'no issues' variant
NoIssuesVariant(lines) ==
  \E i \in DOMAIN lines : test("No issues found - looks great!", lines[i])

\* C22: if a comment of the merged sequence before truncation begins with an
\* [ERROR] tag, then the status summarizeResult gives the returned result is
\* CHANGES_REQUESTED and neither summary is the 'no issues' variant, for every
\* maxComments and every number of heuristic comments before the AI ones.
C22_ErrorSurvives ==
  (/\ Returned
   /\ cfg.maxComments >= 0
   /\ \E i \in DOMAIN PreTruncation :
        startsWith(toUpper(PreTruncation[i].message), "[ERROR]")) =>
    /\ summarizeResult(review[1], cfg).status = "CHANGES_REQUESTED"
    /\ ~NoIssuesVariant(formatSummary(review[1], cfg))
    /\ ~NoIssuesVariant(formatSummaryCLI(review[1], cfg))

====
